---------------------------- MODULE Spec2Model ----------------------------
(***************************************************************************)
(* Unity Catalog workshop notebooks (labs 1, 3, 4 and 5) as a state        *)
(* machine.  Each notebook is a fixed, linear list of SQL statements sent  *)
(* to the metastore; the state is the metastore's objects for the          *)
(* learner's namespace, the session context and the position of the        *)
(* running notebook.                                                       *)
(***************************************************************************)
EXTENDS Integers, Sequences, FiniteSets, TLC

(***************************************************************************)
(* Bounds of the model.                                                    *)
(***************************************************************************)
\* longest login string drawn for the identity cells
MaxLen == 3
\* dropped tables the metastore keeps before lab 3 may be started again
MaxDropped == 2

(***************************************************************************)
(* Strings are sequences of one-character strings, so that str.split can   *)
(* be computed as Python computes it.                                      *)
(***************************************************************************)
Alphabet == {"a", "b", "@"}

RECURSIVE StringsOfLen(_)
StringsOfLen(n) ==
  IF n = 0 THEN {<<>>}
  ELSE {Append(s, c) : s \in StringsOfLen(n - 1), c \in Alphabet}

Strings == UNION {StringsOfLen(n) : n \in 0..MaxLen}

\* str.split(sep): the list of the pieces between the occurrences of sep
\* (one piece more than there are separators; pieces may be empty).
RECURSIVE SplitFrom(_, _, _, _)
SplitFrom(s, sep, i, cur) ==
  IF i > Len(s) THEN <<cur>>
  ELSE IF s[i] = sep THEN <<cur>> \o SplitFrom(s, sep, i + 1, <<>>)
  ELSE SplitFrom(s, sep, i + 1, Append(cur, s[i]))

Split(s, sep) == SplitFrom(s, sep, 1, <<>>)

\* A plausible slip: the piece after the last separator (rsplit / [-1]).
DeriveUserIdLastPiece(name) == Split(name, "@")[Len(Split(name, "@"))]

\* user_name.split('@')[0]
DeriveUserId(name) == Split(name, "@")[1]


\* Value of a Python variable that no cell has assigned yet.
Unset == <<"unset">>

\* The group every principal of the account belongs to; principal names are
\* sequences, like the logins, so that grants can hold both.
AccountUsers == <<"account users">>

(***************************************************************************)
(* The data the notebooks read.  A table is a record of its declared       *)
(* columns, its rows (a sequence: SQL tables may hold a row twice), the    *)
(* tags set on it and src, the source data it was last built from.         *)
(***************************************************************************)
MaskLiteral == "XXX Masked Address"

CustomerCols == <<<<"c_custkey", "bigint">>, <<"c_address", "string">>>>
OrderCols == <<<<"o_orderkey", "bigint">>, <<"o_custkey", "bigint">>,
               <<"o_orderdate", "date">>>>
SupplierCols == <<<<"s_suppkey", "bigint">>, <<"n_name", "string">>>>
NationCols == <<<<"n_name", "string">>>>
RegionCols == <<<<"r_name", "string">>>>
FactCols == <<<<"sales_key", "int">>, <<"order_key", "bigint">>,
              <<"lineitem_key", "int">>, <<"customer_key", "bigint">>,
              <<"supplier_key", "bigint">>, <<"date_key", "date">>,
              <<"sales_amount", "decimal">>, <<"quantity", "decimal">>>>

Cust(k, a) == [c_custkey |-> k, c_address |-> a]
Ord(k, c, d) == [o_orderkey |-> k, o_custkey |-> c, o_orderdate |-> d]
Supp(k, n) == [s_suppkey |-> k, n_name |-> n]
Line(o, n, s, p, q) ==
  [l_orderkey |-> o, l_linenumber |-> n, l_suppkey |-> s,
   l_extendedprice |-> p, l_quantity |-> q]

\* samples.tpch.lineitem: a fixed sample data set, in storage order.
LineItem ==
  <<Line(2, 1, 2, 30, 3), Line(1, 2, 1, 20, 2), Line(1, 1, 1, 10, 1)>>

\* Contents the source directories may have (read_files infers the schema).
CustomerFiles ==
  {<<>>, <<Cust(1, "12 Main St"), Cust(2, MaskLiteral)>>}
OrderFiles ==
  {<<Ord(1, 1, 1)>>,
   <<Ord(1, 1, 1), Ord(2, 2, 1)>>,
   <<Ord(1, 1, 1), Ord(1, 1, 2)>>}
SupplierFiles ==
  {<<Supp(1, "FRANCE")>>,
   <<Supp(1, "UNITED STATES"), Supp(2, "FRANCE"), Supp(3, "CANADA")>>}
NationFile == <<[n_name |-> "FRANCE"]>>
RegionFile == <<[r_name |-> "EUROPE"]>>

\* Groups IS_ACCOUNT_GROUP_MEMBER is asked about in lab 5.
TestedGroups == {"geo", "hr_admin"}

(***************************************************************************)
(* The notebooks.  A statement is [op, obj, a1, a2, line]: obj is the      *)
(* object it is issued on, relative to the learner's catalog ("catalog",   *)
(* "schema" for {catalog}.sales, "volume" for {catalog}.sales.tracking, a  *)
(* table, function or policy name, or "none"), a1 and a2 are its other     *)
(* arguments (a1 a string, a2 a sequence) and line is the source line that *)
(* issues it.                                                              *)
(***************************************************************************)
St(op, obj, a1, a2, line) ==
  [op |-> op, obj |-> obj, a1 |-> a1, a2 |-> a2, line |-> line]

SchemaComment == "Sales schema to review customers and orders."
VolumeComment == "Volume for checkpoint files and schema tracking"
CatalogComment == "Description of your catalog."
PlaceholderId == "update_this_value_with_your_tableId"
\* The f-string field {user_name}, filled in when the statement is issued.
UserName == <<"{user_name}">>

\* A plausible slip: the context is set to the schema before it is created.
Lab1SchemaUsedFirst ==
  << St("IDENTITY", "none", "", <<>>, 30),
     St("CATALOG_NAME", "none", "", <<>>, 59),
     St("USE_CATALOG", "catalog", "", <<>>, 65),
     St("SHOW", "catalog", "DESCRIBE CATALOG", <<>>, 77),
     St("SHOW", "none", "CURRENT", <<>>, 83),
     St("SHOW", "none", "information_schema.catalogs", <<>>, 93),
     St("USE_SCHEMA", "schema", "", <<>>, 119),
     St("CREATE_SCHEMA", "schema", SchemaComment, <<>>, 112),
     St("SHOW", "none", "CURRENT", <<>>, 125),
     St("CREATE_VOLUME", "volume", VolumeComment, <<>>, 145),
     St("SHOW", "schema", "SHOW VOLUMES", <<>>, 151),
     St("PRINT", "none", "", <<>>, 181) >>

\* 001-Catalog-Creation.py
Lab1 ==
  << St("IDENTITY", "none", "", <<>>, 30),
     St("CATALOG_NAME", "none", "", <<>>, 59),
     St("USE_CATALOG", "catalog", "", <<>>, 65),
     St("SHOW", "catalog", "DESCRIBE CATALOG", <<>>, 77),
     St("SHOW", "none", "CURRENT", <<>>, 83),
     St("SHOW", "none", "information_schema.catalogs", <<>>, 93),
     St("CREATE_SCHEMA", "schema", SchemaComment, <<>>, 112),
     St("USE_SCHEMA", "schema", "", <<>>, 119),
     St("SHOW", "none", "CURRENT", <<>>, 125),
     St("CREATE_VOLUME", "volume", VolumeComment, <<>>, 145),
     St("SHOW", "schema", "SHOW VOLUMES", <<>>, 151),
     St("PRINT", "none", "", <<>>, 181) >>

\* 003-Table-Creation-Management.py
Lab3 ==
  << St("IDENTITY", "none", "", <<>>, 26),
     St("CATALOG_NAME", "none", "", <<>>, 34),
     St("USE_CATALOG", "catalog", "", <<>>, 40),
     St("USE_SCHEMA", "schema", "", <<>>, 41),
     St("SHOW", "none", "CURRENT", <<>>, 47),
     St("CREATE_TABLE", "customers", "", <<>>, 60),
     St("CREATE_TABLE", "nations", "", <<>>, 66),
     St("CREATE_TABLE", "orders", "", <<>>, 72),
     St("CREATE_TABLE", "regions", "", <<>>, 78),
     St("CREATE_TABLE", "suppliers", "", <<>>, 84),
     St("CREATE_FACT", "sales_fact", "", <<>>, 91),
     St("SELECT", "customers", "", <<>>, 111),
     St("SELECT", "suppliers", "", <<>>, 117),
     St("SHOW", "customers", "DESCRIBE EXTENDED", <<>>, 130),
     St("SHOW", "suppliers", "DESCRIBE EXTENDED", <<>>, 136),
     St("SHOW", "customers", "SHOW TBLPROPERTIES", <<>>, 142),
     St("SHOW", "suppliers", "SHOW TBLPROPERTIES", <<>>, 148),
     St("SHOW", "none", "information_schema.tables", <<>>, 153),
     St("DROP_TABLE", "customers", "", <<>>, 180),
     St("SHOW", "none", "SHOW TABLES LIKE", <<>>, 186),
     St("UNDROP_TABLE", "customers", "", <<>>, 192),
     St("SHOW", "none", "SHOW TABLES LIKE", <<>>, 198),
     St("DROP_TABLE", "customers", "", <<>>, 204),
     St("SHOW", "none", "SHOW TABLES LIKE", <<>>, 210),
     St("SHOW", "none", "SHOW TABLES DROPPED", <<>>, 216),
     St("UNDROP_ID", "customers", PlaceholderId, <<>>, 222),
     St("SHOW", "none", "SHOW TABLES LIKE", <<>>, 228) >>

\* 004-Access-Control-Permissions.py
Lab4 ==
  << St("IDENTITY", "none", "", <<>>, 27),
     St("CATALOG_NAME", "none", "", <<>>, 35),
     St("USE_CATALOG", "catalog", "", <<>>, 41),
     St("USE_SCHEMA", "schema", "", <<>>, 42),
     St("SHOW", "none", "CURRENT", <<>>, 48),
     St("GRANT", "catalog", "USE_CATALOG", UserName, 73),
     St("GRANT", "catalog", "BROWSE", UserName, 74),
     St("GRANT", "schema", "USE_SCHEMA", AccountUsers, 79),
     St("GRANT", "schema", "SELECT", AccountUsers, 84),
     St("GRANT", "sales_fact", "SELECT", AccountUsers, 85),
     St("GRANT", "volume", "READ_VOLUME", AccountUsers, 90),
     St("SHOW_GRANTS", "catalog", "", <<>>, 95),
     St("SHOW_GRANTS", "schema", "", <<>>, 100),
     St("SHOW_GRANTS", "sales_fact", "", <<>>, 105),
     St("SHOW_GRANTS", "volume", "", <<>>, 110),
     St("REVOKE", "volume", "READ_VOLUME", AccountUsers, 122),
     St("REVOKE", "sales_fact", "SELECT", AccountUsers, 123),
     St("REVOKE", "schema", "SELECT", AccountUsers, 128),
     St("REVOKE", "schema", "USE_SCHEMA", AccountUsers, 129),
     St("REVOKE", "catalog", "BROWSE", AccountUsers, 134),
     St("REVOKE", "catalog", "USE_CATALOG", AccountUsers, 135),
     St("SHOW", "none", "table_privileges", <<>>, 147),
     St("SHOW", "none", "schema_privileges", <<>>, 163) >>

\* A plausible slip: the two policy cells placed above the function cells.
Lab5PoliciesFirst ==
  << St("IDENTITY", "none", "", <<>>, 27),
     St("CATALOG_NAME", "none", "", <<>>, 35),
     St("USE_CATALOG", "catalog", "", <<>>, 41),
     St("USE_SCHEMA", "schema", "", <<>>, 42),
     St("SHOW", "none", "CURRENT", <<>>, 48),
     St("SELECT", "customers", "", <<>>, 54),
     St("SELECT", "suppliers", "", <<>>, 58),
     St("CREATE_POLICY", "nation_filter", "filter_nation", <<>>, 90),
     St("CREATE_POLICY", "mask_address", "mask_address", <<>>, 104),
     St("CREATE_FUNCTION", "filter_nation", "", <<>>, 75),
     St("CREATE_FUNCTION", "mask_address", "", <<>>, 83),
     St("SET_TAGS", "customers", "c_address", <<"uc_pii", "address">>, 118),
     St("SET_TAGS", "suppliers", "", <<"uc_geo", "">>, 120),
     St("SET_TAGS", "suppliers", "n_name", <<"uc_geo", "">>, 121),
     St("SELECT", "customers", "", <<>>, 126),
     St("SELECT", "suppliers", "", <<>>, 131) >>

\* 005-Fine-Grained-Permissions.py with the cell "Apply Governed Tags"
\* (lines 118-121) run before the two policy cells (lines 90-113): the cells
\* of a notebook can be run one by one in another order than top to bottom.
Lab5TagsFirst ==
  << St("IDENTITY", "none", "", <<>>, 27),
     St("CATALOG_NAME", "none", "", <<>>, 35),
     St("USE_CATALOG", "catalog", "", <<>>, 41),
     St("USE_SCHEMA", "schema", "", <<>>, 42),
     St("SHOW", "none", "CURRENT", <<>>, 48),
     St("SELECT", "customers", "", <<>>, 54),
     St("SELECT", "suppliers", "", <<>>, 58),
     St("CREATE_FUNCTION", "filter_nation", "", <<>>, 75),
     St("CREATE_FUNCTION", "mask_address", "", <<>>, 83),
     St("SET_TAGS", "customers", "c_address", <<"uc_pii", "address">>, 118),
     St("SET_TAGS", "suppliers", "", <<"uc_geo", "">>, 120),
     St("SET_TAGS", "suppliers", "n_name", <<"uc_geo", "">>, 121),
     St("CREATE_POLICY", "nation_filter", "filter_nation", <<>>, 90),
     St("CREATE_POLICY", "mask_address", "mask_address", <<>>, 104),
     St("SELECT", "customers", "", <<>>, 126),
     St("SELECT", "suppliers", "", <<>>, 131) >>

\* 005-Fine-Grained-Permissions.py
Lab5 ==
  << St("IDENTITY", "none", "", <<>>, 27),
     St("CATALOG_NAME", "none", "", <<>>, 35),
     St("USE_CATALOG", "catalog", "", <<>>, 41),
     St("USE_SCHEMA", "schema", "", <<>>, 42),
     St("SHOW", "none", "CURRENT", <<>>, 48),
     St("SELECT", "customers", "", <<>>, 54),
     St("SELECT", "suppliers", "", <<>>, 58),
     St("CREATE_FUNCTION", "filter_nation", "", <<>>, 75),
     St("CREATE_FUNCTION", "mask_address", "", <<>>, 83),
     St("CREATE_POLICY", "nation_filter", "filter_nation", <<>>, 90),
     St("CREATE_POLICY", "mask_address", "mask_address", <<>>, 104),
     St("SET_TAGS", "customers", "c_address", <<"uc_pii", "address">>, 118),
     St("SET_TAGS", "suppliers", "", <<"uc_geo", "">>, 120),
     St("SET_TAGS", "suppliers", "n_name", <<"uc_geo", "">>, 121),
     St("SELECT", "customers", "", <<>>, 126),
     St("SELECT", "suppliers", "", <<>>, 131) >>

Labs == {1, 3, 4, 5}

Script(n) ==
  CASE n = 1 -> Lab1
    [] n = 3 -> Lab3
    [] n = 4 -> Lab4
    [] n = 5 -> Lab5
    [] OTHER -> Lab5TagsFirst

(***************************************************************************)
(* State.                                                                  *)
(***************************************************************************)
VARIABLES
  user_name,     \* w.current_user.me().user_name of the session
  user_id,       \* Python variable user_id
  catalog_name,  \* Python variable catalog_name
  peer,          \* a second principal running the same identity cells
  lab,           \* the notebook last started (0: none yet)
  pc,            \* index of its current statement
  status,        \* "idle", "running", "done" or "aborted"
  err,           \* the platform's error that aborted the run, or "none"
  log,           \* statements the current run has issued, in order
  issued,        \* the statement the platform received last
  result,        \* what the last statement displayed
  useCatalog,    \* the session's current catalog is {catalog_name}
  useSchema,     \* the session's current schema is {catalog_name}.sales
  objs,          \* catalog, schema and volume objects, in creation order
  tables,        \* tables of {catalog_name}.sales by name
  dropped,       \* dropped tables the metastore still keeps, oldest first
  grants,        \* <<privilege, object, principal>>
  funcs,         \* functions of {catalog_name}.sales
  policies,      \* policies on {catalog_name}.sales, in creation order
  files          \* contents of /Volumes/uc_wksp/gov_lab/files/

vars ==
  <<user_name, user_id, catalog_name, peer, lab, pc, status, err, log, issued,
    result, useCatalog, useSchema, objs, tables, dropped, grants, funcs,
    policies, files>>

sessionVars == <<user_name, user_id, catalog_name>>
platformVars == <<objs, tables, dropped, grants, funcs, policies>>
contextVars == <<useCatalog, useSchema>>

NoStatement ==
  [op |-> "none", obj |-> "none", a1 |-> "", a2 |-> <<>>, line |-> 0]
NoResult ==
  [table |-> "none", groups |-> {}, cols |-> <<>>, rows |-> <<>>,
   grants |-> {}]
NoTables ==
  [t \in {} |-> [cols |-> <<>>, rows |-> <<>>, tags |-> {}, src |-> <<>>]]
NoPeer == [user_name |-> <<>>, user_id |-> Unset, catalog_name |-> Unset]

\* The login of the session that runs the notebooks.
SessionLogins == {<<"a", "@", "b">>}

InitPlatform ==
  /\ objs = <<>>
  /\ tables = NoTables
  /\ dropped = <<>>
  /\ grants = {}
  /\ funcs = {}
  /\ policies = <<>>

InitRun ==
  /\ lab = 0
  /\ pc = 0
  /\ status = "idle"
  /\ err = "none"
  /\ log = <<>>
  /\ issued = NoStatement
  /\ result = NoResult
  /\ useCatalog = FALSE
  /\ useSchema = FALSE

Init ==
  /\ user_name \in SessionLogins
  /\ user_id = Unset
  /\ catalog_name = Unset
  /\ peer = NoPeer
  /\ InitRun
  /\ InitPlatform
  /\ files \in [customers : CustomerFiles, orders : OrderFiles,
                suppliers : SupplierFiles, nations : {NationFile},
                regions : {RegionFile}]

(***************************************************************************)
(* Running a notebook: one statement at a time, top to bottom; a rejected  *)
(* statement raises and ends the run.                                      *)
(***************************************************************************)
Running == status = "running"
Cur == Script(lab)[pc]

Exists(os, o) == \E i \in DOMAIN os : os[i].name = o
Count(os, o) == Cardinality({i \in DOMAIN os : os[i].name = o})

Issue ==
  /\ log' = Append(log, Cur)
  /\ issued' = Cur
  /\ lab' = lab

Proceed ==
  /\ Issue
  /\ err' = "none"
  /\ pc' = pc + 1
  /\ status' = IF pc = Len(Script(lab)) THEN "done" ELSE "running"

\* A plausible slip: the statement wrapped in try/except, the run goes on.
FailAndGoOn(e) ==
  /\ Issue
  /\ err' = e
  /\ pc' = pc + 1
  /\ status' = IF pc = Len(Script(lab)) THEN "done" ELSE "running"

Fail(e) ==
  /\ Issue
  /\ err' = e
  /\ pc' = pc
  /\ status' = "aborted"

StartLab(n) ==
  /\ status # "running"
  /\ n = 3 => Len(dropped) < MaxDropped
  /\ lab' = n
  /\ pc' = 1
  /\ status' = "running"
  /\ err' = "none"
  /\ log' = <<>>
  /\ issued' = NoStatement
  /\ result' = NoResult
  /\ useCatalog' = FALSE
  /\ useSchema' = FALSE
  /\ UNCHANGED <<sessionVars, peer, platformVars, files>>

\* lines 29-31 of lab 1 (26-28 of the others)
ExecIdentity ==
  /\ Running /\ Cur.op = "IDENTITY"
  /\ user_id' = DeriveUserId(user_name)
  /\ Proceed
  /\ result' = NoResult
  /\ UNCHANGED <<user_name, catalog_name, peer, contextVars, platformVars, files>>

\* catalog_name = user_id
ExecCatalogName ==
  /\ Running /\ Cur.op = "CATALOG_NAME"
  /\ IF user_id # Unset
     THEN catalog_name' = user_id /\ Proceed
     ELSE catalog_name' = catalog_name /\ Fail("NameError")
  /\ result' = NoResult
  /\ UNCHANGED <<user_name, user_id, peer, contextVars, platformVars, files>>


(***************************************************************************)
(* Namespace statements (lab 1).                                           *)
(***************************************************************************)
NewObject(o, c) == [name |-> o, comment |-> c]

\* A plausible slip: CREATE without IF NOT EXISTS that also does not fail.
CreateAlways(os, o, c) == Append(os, NewObject(o, c))

\* CREATE ... IF NOT EXISTS o COMMENT c
CreateIfNotExists(os, o, c) ==
  IF Exists(os, o) THEN os ELSE Append(os, NewObject(o, c))

\* An object a statement names can be resolved.
Resolves(o) ==
  CASE o = "none" -> TRUE
    [] o \in {"catalog", "schema", "volume"} -> Exists(objs, o)
    [] OTHER -> o \in DOMAIN tables

\* The catalog "has been created for you as part of this setup", by
\* CREATE CATALOG IF NOT EXISTS `your_catalog_name` COMMENT '...'
CreateCatalog ==
  /\ ~Running
  /\ objs' = CreateIfNotExists(objs, "catalog", CatalogComment)
  /\ issued' = St("CREATE_CATALOG", "catalog", CatalogComment, <<>>, 52)
  /\ err' = "none"
  /\ result' = NoResult
  /\ UNCHANGED <<sessionVars, peer, lab, pc, status, log, contextVars, tables,
                 dropped, grants, funcs, policies, files>>

\* USE CATALOG `{catalog_name}`: the current schema becomes the default one
ExecUseCatalog ==
  /\ Running /\ Cur.op = "USE_CATALOG"
  /\ IF Exists(objs, "catalog")
     THEN useCatalog' = TRUE /\ useSchema' = FALSE /\ Proceed
     ELSE UNCHANGED contextVars /\ Fail("NotFound")
  /\ result' = NoResult
  /\ UNCHANGED <<sessionVars, peer, platformVars, files>>

\* USE SCHEMA sales
ExecUseSchema ==
  /\ Running /\ Cur.op = "USE_SCHEMA"
  /\ IF useCatalog /\ Exists(objs, "schema")
     THEN useSchema' = TRUE /\ useCatalog' = useCatalog /\ Proceed
     ELSE UNCHANGED contextVars /\ Fail("NotFound")
  /\ result' = NoResult
  /\ UNCHANGED <<sessionVars, peer, platformVars, files>>

\* DESCRIBE, SHOW ..., SELECT CURRENT_...(), information_schema queries
ExecShow ==
  /\ Running /\ Cur.op = "SHOW"
  /\ IF Resolves(Cur.obj) THEN Proceed ELSE Fail("NotFound")
  /\ result' = NoResult
  /\ UNCHANGED <<sessionVars, peer, contextVars, platformVars, files>>

\* print(...)
ExecPrint ==
  /\ Running /\ Cur.op = "PRINT"
  /\ Proceed
  /\ result' = NoResult
  /\ UNCHANGED <<sessionVars, peer, contextVars, platformVars, files>>

\* CREATE SCHEMA IF NOT EXISTS sales COMMENT '...'
ExecCreateSchema ==
  /\ Running /\ Cur.op = "CREATE_SCHEMA"
  /\ IF useCatalog /\ Exists(objs, "catalog")
     THEN objs' = CreateIfNotExists(objs, "schema", Cur.a1) /\ Proceed
     ELSE objs' = objs /\ Fail("NotFound")
  /\ result' = NoResult
  /\ UNCHANGED <<sessionVars, peer, contextVars, tables, dropped, grants,
                 funcs, policies, files>>

\* CREATE VOLUME IF NOT EXISTS tracking COMMENT '...'
ExecCreateVolume ==
  /\ Running /\ Cur.op = "CREATE_VOLUME"
  /\ IF useSchema /\ Exists(objs, "schema")
     THEN objs' = CreateIfNotExists(objs, "volume", Cur.a1) /\ Proceed
     ELSE objs' = objs /\ Fail("NotFound")
  /\ result' = NoResult
  /\ UNCHANGED <<sessionVars, peer, contextVars, tables, dropped, grants,
                 funcs, policies, files>>


(***************************************************************************)
(* Tables (lab 3).                                                         *)
(***************************************************************************)
ColsOf(t) ==
  CASE t = "customers" -> CustomerCols
    [] t = "orders" -> OrderCols
    [] t = "suppliers" -> SupplierCols
    [] t = "nations" -> NationCols
    [] OTHER -> RegionCols

\* SELECT * FROM read_files('/Volumes/uc_wksp/gov_lab/files/<t>/')
ReadFiles(t) == [cols |-> ColsOf(t), rows |-> files[t], src |-> files[t]]

KeptTags(tbls, t) == IF t \in DOMAIN tbls THEN tbls[t].tags ELSE {}

\* A plausible slip: the query's rows are added to the rows already there.
AppendAs(tbls, t, src) ==
  [x \in DOMAIN tbls \cup {t} |->
     IF x = t
     THEN [cols |-> src.cols,
           rows |-> (IF t \in DOMAIN tbls THEN tbls[t].rows ELSE <<>>)
                      \o src.rows,
           tags |-> KeptTags(tbls, t), src |-> src.src]
     ELSE tbls[x]]

\* CREATE OR REPLACE TABLE t AS <src>
CreateOrReplaceAs(tbls, t, src) ==
  [x \in DOMAIN tbls \cup {t} |->
     IF x = t
     THEN [cols |-> src.cols, rows |-> src.rows, tags |-> KeptTags(tbls, t),
           src |-> src.src]
     ELSE tbls[x]]

\* The files under customers/ are replaced while no notebook runs.
SourceChanges ==
  /\ ~Running
  /\ \E c \in CustomerFiles \ {files.customers} :
       files' = [files EXCEPT !.customers = c]
  /\ UNCHANGED <<sessionVars, peer, lab, pc, status, err, log, issued, result,
                 contextVars, platformVars>>

ExecCreateTable ==
  /\ Running /\ Cur.op = "CREATE_TABLE"
  /\ IF useSchema /\ Exists(objs, "schema")
     THEN tables' = CreateOrReplaceAs(tables, Cur.obj, ReadFiles(Cur.obj))
          /\ Proceed
     ELSE tables' = tables /\ Fail("NotFound")
  /\ result' = NoResult
  /\ UNCHANGED <<sessionVars, peer, contextVars, objs, dropped, grants, funcs,
                 policies, files>>

\* FROM samples.tpch.lineitem l JOIN orders o ON ... JOIN customers c ON ...
\* JOIN suppliers s ON ...: the joined rows, each named by the positions of
\* the four rows it is made of.
Joined(tbls) ==
  {q \in (DOMAIN LineItem) \X (DOMAIN tbls["orders"].rows)
          \X (DOMAIN tbls["customers"].rows)
          \X (DOMAIN tbls["suppliers"].rows) :
     /\ LineItem[q[1]].l_orderkey = tbls["orders"].rows[q[2]].o_orderkey
     /\ tbls["orders"].rows[q[2]].o_custkey
          = tbls["customers"].rows[q[3]].c_custkey
     /\ LineItem[q[1]].l_suppkey = tbls["suppliers"].rows[q[4]].s_suppkey}

\* The SELECT list of the sales_fact build for joined row q numbered n.
FactRow(tbls, n, q) ==
  [sales_key |-> n,
   order_key |-> tbls["orders"].rows[q[2]].o_orderkey,
   lineitem_key |-> LineItem[q[1]].l_linenumber,
   customer_key |-> tbls["customers"].rows[q[3]].c_custkey,
   supplier_key |-> tbls["suppliers"].rows[q[4]].s_suppkey,
   date_key |-> tbls["orders"].rows[q[2]].o_orderdate,
   sales_amount |-> LineItem[q[1]].l_extendedprice,
   quantity |-> LineItem[q[1]].l_quantity]

\* ORDER BY l.l_orderkey, l.l_linenumber
OrderedBefore(q1, q2) ==
  \/ LineItem[q1[1]].l_orderkey < LineItem[q2[1]].l_orderkey
  \/ /\ LineItem[q1[1]].l_orderkey = LineItem[q2[1]].l_orderkey
     /\ LineItem[q1[1]].l_linenumber <= LineItem[q2[1]].l_linenumber

\* row_number() OVER (ORDER BY ...): every numbering 1..N of the joined rows
\* that respects the order; rows that tie may be numbered either way.
Numberings(J) ==
  IF J = {} THEN {<<>>}
  ELSE {f \in [1..Cardinality(J) -> J] :
          /\ \A a, b \in DOMAIN f : a # b => f[a] # f[b]
          /\ \A a, b \in DOMAIN f : a < b => OrderedBefore(f[a], f[b])}

\* The tables the sales_fact build reads, as they are now.
FactSource(tbls) ==
  <<tbls["orders"].rows, tbls["customers"].rows, tbls["suppliers"].rows>>

FactQuery(tbls, f) ==
  [cols |-> FactCols, rows |-> [n \in DOMAIN f |-> FactRow(tbls, n, f[n])],
   src |-> FactSource(tbls)]

ExecCreateFact ==
  /\ Running /\ Cur.op = "CREATE_FACT"
  /\ IF Exists(objs, "schema")
        /\ {"orders", "customers", "suppliers"} \subseteq DOMAIN tables
     THEN /\ \E f \in Numberings(Joined(tables)) :
               tables' = CreateOrReplaceAs(tables, Cur.obj,
                                           FactQuery(tables, f))
          /\ Proceed
     ELSE tables' = tables /\ Fail("NotFound")
  /\ result' = NoResult
  /\ UNCHANGED <<sessionVars, peer, contextVars, objs, dropped, grants, funcs,
                 policies, files>>

Without(tbls, t) == [x \in DOMAIN tbls \ {t} |-> tbls[x]]
With(tbls, t, tb) == [x \in DOMAIN tbls \cup {t} |-> IF x = t THEN tb ELSE tbls[x]]
RemoveAt(sq, i) == [k \in 1..(Len(sq) - 1) |-> IF k < i THEN sq[k] ELSE sq[k + 1]]
DroppedAs(t) == {i \in DOMAIN dropped : dropped[i].name = t}
Latest(S) == CHOOSE i \in S : \A j \in S : j <= i

\* DROP TABLE customers
ExecDropTable ==
  /\ Running /\ Cur.op = "DROP_TABLE"
  /\ IF Cur.obj \in DOMAIN tables
     THEN /\ tables' = Without(tables, Cur.obj)
          /\ dropped' = Append(dropped, [name |-> Cur.obj, tbl |-> tables[Cur.obj]])
          /\ Proceed
     ELSE UNCHANGED <<tables, dropped>> /\ Fail("NotFound")
  /\ result' = NoResult
  /\ UNCHANGED <<sessionVars, peer, contextVars, objs, grants, funcs, policies,
                 files>>

\* UNDROP TABLE customers: the most recently dropped table of that name
ExecUndropTable ==
  /\ Running /\ Cur.op = "UNDROP_TABLE"
  /\ IF DroppedAs(Cur.obj) # {} /\ Cur.obj \notin DOMAIN tables
     THEN /\ tables' = With(tables, Cur.obj, dropped[Latest(DroppedAs(Cur.obj))].tbl)
          /\ dropped' = RemoveAt(dropped, Latest(DroppedAs(Cur.obj)))
          /\ Proceed
     ELSE UNCHANGED <<tables, dropped>> /\ Fail("NotFound")
  /\ result' = NoResult
  /\ UNCHANGED <<sessionVars, peer, contextVars, objs, grants, funcs, policies,
                 files>>

\* UNDROP TABLE WITH ID '...': the cell holds a placeholder the learner is
\* told to replace by a table id of SHOW TABLES DROPPED (id 0: left as is).
ExecUndropId ==
  /\ Running /\ Cur.op = "UNDROP_ID"
  /\ \E id \in {0} \cup DOMAIN dropped :
       IF id # 0 /\ dropped[id].name \notin DOMAIN tables
       THEN /\ tables' = With(tables, dropped[id].name, dropped[id].tbl)
            /\ dropped' = RemoveAt(dropped, id)
            /\ Proceed
       ELSE UNCHANGED <<tables, dropped>> /\ Fail("NotFound")
  /\ result' = NoResult
  /\ UNCHANGED <<sessionVars, peer, contextVars, objs, grants, funcs, policies,
                 files>>


(***************************************************************************)
(* Security functions, policies and reads (lab 5).                         *)
(***************************************************************************)
\* A plausible slip: the branches of the IF exchanged.
FilterNationSwapped(g, nation) ==
  IF "geo" \in g THEN nation \in {"UNITED STATES", "CANADA"} ELSE TRUE

\* filter_nation(nation): IF(IS_ACCOUNT_GROUP_MEMBER('geo'), true,
\*                            nation IN ("UNITED STATES", "CANADA"))
FilterNation(g, nation) ==
  IF "geo" \in g THEN TRUE ELSE nation \in {"UNITED STATES", "CANADA"}

\* A plausible slip: the branches of the IF exchanged.
MaskAddressSwapped(g, address) ==
  IF "hr_admin" \in g THEN MaskLiteral ELSE address

\* mask_address(address): IF(IS_ACCOUNT_GROUP_MEMBER('hr_admin'), address,
\*                           "XXX Masked Address")
MaskAddress(g, address) ==
  IF "hr_admin" \in g THEN address ELSE MaskLiteral

\* Columns of a table a policy matches: hasTag('uc_geo') for the row filter,
\* hasTagValue('uc_pii', 'address') for the column mask.  Both policies are
\* TO `account users`, the group of every principal of the account.
FilterColumns(tb) ==
  IF \E i \in DOMAIN policies : policies[i] = "nation_filter"
  THEN {tg[1] : tg \in {x \in tb.tags : x[1] # "" /\ x[2] = "uc_geo"}}
  ELSE {}

MaskColumns(tb) ==
  IF \E i \in DOMAIN policies : policies[i] = "mask_address"
  THEN {tg[1] : tg \in {x \in tb.tags :
                          x[1] # "" /\ x[2] = "uc_pii" /\ x[3] = "address"}}
  ELSE {}

\* SELECT * FROM t, read by a principal of groups g
Select(tb, g) ==
  LET Visible(r) == \A c \in FilterColumns(tb) : FilterNation(g, r[c])
      kept == SelectSeq(tb.rows, Visible)
  IN  [i \in DOMAIN kept |->
         [c \in DOMAIN kept[i] |->
            IF c \in MaskColumns(tb) THEN MaskAddress(g, kept[i][c])
            ELSE kept[i][c]]]

ExecSelect ==
  /\ Running /\ Cur.op = "SELECT"
  /\ IF Cur.obj \in DOMAIN tables
     THEN /\ \E g \in SUBSET TestedGroups :
               result' = [table |-> Cur.obj, groups |-> g,
                          cols |-> tables[Cur.obj].cols,
                          rows |-> Select(tables[Cur.obj], g),
                          grants |-> {}]
          /\ Proceed
     ELSE result' = NoResult /\ Fail("NotFound")
  /\ UNCHANGED <<sessionVars, peer, contextVars, platformVars, files>>

\* CREATE OR REPLACE FUNCTION {catalog_name}.sales.<name>
ExecCreateFunction ==
  /\ Running /\ Cur.op = "CREATE_FUNCTION"
  /\ IF Exists(objs, "schema")
     THEN funcs' = funcs \cup {Cur.obj} /\ Proceed
     ELSE funcs' = funcs /\ Fail("NotFound")
  /\ result' = NoResult
  /\ UNCHANGED <<sessionVars, peer, contextVars, objs, tables, dropped, grants,
                 policies, files>>

\* What the platform answers to CREATE POLICY name ... (no OR REPLACE).
CreatePolicyError(ps, fs, name, fn) ==
  IF ~Exists(objs, "schema") \/ fn \notin fs THEN "NotFound"
  ELSE IF \E i \in DOMAIN ps : ps[i] = name THEN "AlreadyExists"
  ELSE "none"

\* CREATE POLICY <name> ON SCHEMA {catalog_name}.sales ...
ExecCreatePolicy ==
  /\ Running /\ Cur.op = "CREATE_POLICY"
  /\ IF CreatePolicyError(policies, funcs, Cur.obj, Cur.a1) = "none"
     THEN policies' = Append(policies, Cur.obj) /\ Proceed
     ELSE policies' = policies
          /\ Fail(CreatePolicyError(policies, funcs, Cur.obj, Cur.a1))
  /\ result' = NoResult
  /\ UNCHANGED <<sessionVars, peer, contextVars, objs, tables, dropped, grants,
                 funcs, files>>

HasColumn(tb, c) == c = "" \/ \E i \in DOMAIN tb.cols : tb.cols[i][1] = c

SetTag(tags, c, kv) ==
  {x \in tags : ~(x[1] = c /\ x[2] = kv[1])} \cup {<<c, kv[1], kv[2]>>}

\* ALTER TABLE t [ALTER COLUMN c] SET TAGS (...)
ExecSetTags ==
  /\ Running /\ Cur.op = "SET_TAGS"
  /\ IF Cur.obj \in DOMAIN tables /\ HasColumn(tables[Cur.obj], Cur.a1)
     THEN tables' = [tables EXCEPT ![Cur.obj].tags = SetTag(@, Cur.a1, Cur.a2)]
          /\ Proceed
     ELSE tables' = tables /\ Fail("NotFound")
  /\ result' = NoResult
  /\ UNCHANGED <<sessionVars, peer, contextVars, objs, dropped, grants, funcs,
                 policies, files>>

(***************************************************************************)
(* Grants (lab 4).                                                         *)
(***************************************************************************)
\* GRANT perm ON obj TO principal
Grant(gs, perm, obj, principal) == gs \cup {<<perm, obj, principal>>}

\* A plausible slip: the privilege is taken from the schema, not the object.
RevokeOnSchema(gs, perm, obj, principal) == gs \ {<<perm, "schema", principal>>}

\* REVOKE perm ON obj FROM principal
Revoke(gs, perm, obj, principal) == gs \ {<<perm, obj, principal>>}

\* SHOW GRANTS ON obj: the privileges granted on obj and their holders
ShowGrants(gs, obj) == {<<x[1], x[3]>> : x \in {y \in gs : y[2] = obj}}

\* The principal an f-string names once its fields are filled in.
Principal(a) == IF a = UserName THEN user_name ELSE a

ExecGrant ==
  /\ Running /\ Cur.op = "GRANT"
  /\ IF Resolves(Cur.obj)
     THEN grants' = Grant(grants, Cur.a1, Cur.obj, Principal(Cur.a2)) /\ Proceed
     ELSE grants' = grants /\ Fail("NotFound")
  /\ result' = NoResult
  /\ UNCHANGED <<sessionVars, peer, contextVars, objs, tables, dropped, funcs,
                 policies, files>>

ExecRevoke ==
  /\ Running /\ Cur.op = "REVOKE"
  /\ IF Resolves(Cur.obj)
     THEN grants' = Revoke(grants, Cur.a1, Cur.obj, Principal(Cur.a2))
          /\ Proceed
     ELSE grants' = grants /\ Fail("NotFound")
  /\ result' = NoResult
  /\ UNCHANGED <<sessionVars, peer, contextVars, objs, tables, dropped, funcs,
                 policies, files>>

ExecShowGrants ==
  /\ Running /\ Cur.op = "SHOW_GRANTS"
  /\ IF Resolves(Cur.obj)
     THEN result' = [NoResult EXCEPT !.table = Cur.obj,
                                     !.grants = ShowGrants(grants, Cur.obj)]
          /\ Proceed
     ELSE result' = NoResult /\ Fail("NotFound")
  /\ UNCHANGED <<sessionVars, peer, contextVars, platformVars, files>>

(***************************************************************************)
(* The notebooks run by one learner.                                       *)
(***************************************************************************)
Next ==
  \/ \E n \in Labs : StartLab(n)
  \/ CreateCatalog
  \/ SourceChanges
  \/ ExecIdentity
  \/ ExecCatalogName
  \/ ExecUseCatalog
  \/ ExecUseSchema
  \/ ExecShow
  \/ ExecPrint
  \/ ExecCreateSchema
  \/ ExecCreateVolume
  \/ ExecCreateTable
  \/ ExecCreateFact
  \/ ExecDropTable
  \/ ExecUndropTable
  \/ ExecUndropId
  \/ ExecSelect
  \/ ExecCreateFunction
  \/ ExecCreatePolicy
  \/ ExecSetTags
  \/ ExecGrant
  \/ ExecRevoke
  \/ ExecShowGrants

Spec == Init /\ [][Next]_vars

(***************************************************************************)
(* The same, where the learner may also run lab 5 with its tagging cell    *)
(* ahead of its policy cells (run 6).                                      *)
(***************************************************************************)
NextTagOrder ==
  \/ Next
  \/ StartLab(6)

SpecTagOrder == Init /\ [][NextTagOrder]_vars

(***************************************************************************)
(* The same as Spec, where the platform may also reject a statement for a  *)
(* reason outside the catalog's state (a privilege the session lacks, a    *)
(* lost session, any other platform error), on one snapshot of the source  *)
(* files.                                                                  *)
(***************************************************************************)
PythonOnly == {"CATALOG_NAME", "PRINT"}

\* spark.sql(...) / w.current_user.me() raises; nothing catches it.
ExecRejected ==
  /\ Running /\ Cur.op \notin PythonOnly
  /\ Fail("PlatformError")
  /\ result' = NoResult
  /\ UNCHANGED <<sessionVars, peer, contextVars, platformVars, files>>

\* The source files are those of one snapshot and stay as they are.
InitReject ==
  /\ Init
  /\ files.customers # <<>>
  /\ Len(files.orders) = 2
  /\ files.orders[2].o_orderkey = 2
  /\ Len(files.suppliers) = 3

NextReject ==
  \/ \E n \in Labs : StartLab(n)
  \/ CreateCatalog
  \/ ExecIdentity
  \/ ExecCatalogName
  \/ ExecUseCatalog
  \/ ExecUseSchema
  \/ ExecShow
  \/ ExecPrint
  \/ ExecCreateSchema
  \/ ExecCreateVolume
  \/ ExecCreateTable
  \/ ExecCreateFact
  \/ ExecDropTable
  \/ ExecUndropTable
  \/ ExecUndropId
  \/ ExecSelect
  \/ ExecCreateFunction
  \/ ExecCreatePolicy
  \/ ExecSetTags
  \/ ExecGrant
  \/ ExecRevoke
  \/ ExecShowGrants
  \/ ExecRejected

SpecReject == InitReject /\ [][NextReject]_vars


(***************************************************************************)
(* The identity cells alone, run by two principals of any login.           *)
(***************************************************************************)
InitId ==
  /\ user_name \in Strings
  /\ user_id = Unset
  /\ catalog_name = Unset
  /\ peer \in [user_name : Strings, user_id : {Unset}, catalog_name : {Unset}]
  /\ InitRun
  /\ InitPlatform
  /\ files = [customers |-> <<>>, orders |-> <<>>, suppliers |-> <<>>,
              nations |-> NationFile, regions |-> RegionFile]

runVars == <<lab, pc, status, err, log, issued, result>>

\* user_id = w.current_user.me().user_name.split('@')[0]
IdentityCell ==
  /\ user_id = Unset
  /\ user_id' = DeriveUserId(user_name)
  /\ UNCHANGED <<user_name, catalog_name, peer, runVars, contextVars,
                 platformVars, files>>

\* catalog_name = user_id
CatalogNameCell ==
  /\ user_id # Unset /\ catalog_name = Unset
  /\ catalog_name' = user_id
  /\ UNCHANGED <<user_name, user_id, peer, runVars, contextVars, platformVars,
                 files>>

PeerIdentityCell ==
  /\ peer.user_id = Unset
  /\ peer' = [peer EXCEPT !.user_id = DeriveUserId(peer.user_name)]
  /\ UNCHANGED <<sessionVars, runVars, contextVars, platformVars, files>>

PeerCatalogNameCell ==
  /\ peer.user_id # Unset /\ peer.catalog_name = Unset
  /\ peer' = [peer EXCEPT !.catalog_name = peer.user_id]
  /\ UNCHANGED <<sessionVars, runVars, contextVars, platformVars, files>>

NextId ==
  \/ IdentityCell
  \/ CatalogNameCell
  \/ PeerIdentityCell
  \/ PeerCatalogNameCell

SpecId == InitId /\ [][NextId]_vars

(***************************************************************************)
(* Properties.                                                             *)
(***************************************************************************)
\* Position of the first '@' of a login (0: none).
FirstAt(name) ==
  IF \E k \in DOMAIN name : name[k] = "@"
  THEN CHOOSE k \in DOMAIN name :
         name[k] = "@" /\ \A j \in 1..(k - 1) : name[j] # "@"
  ELSE 0

\* C1: for a login u@domain, user_id, and catalog_name after it, is u, the
\* part of the login before the '@'.
C1_IdentityIsLocalPart ==
  FirstAt(user_name) # 0 =>
    /\ user_id # Unset =>
         user_id = SubSeq(user_name, 1, FirstAt(user_name) - 1)
    /\ catalog_name # Unset =>
         catalog_name = SubSeq(user_name, 1, FirstAt(user_name) - 1)

\* The cells have run for a login with a local part, an '@' and a domain.
C1_Witness ==
  /\ catalog_name # Unset
  /\ FirstAt(user_name) = 2
  /\ Len(user_name) = 3
  /\ catalog_name = <<user_name[1]>>

\* A login of the form u@domain: one '@', with text on both sides.
LoginLike(name) ==
  /\ FirstAt(name) > 1
  /\ FirstAt(name) < Len(name)
  /\ \A k \in DOMAIN name : name[k] = "@" => k = FirstAt(name)

\* C2: two different logins never derive the same catalog name.
C2_NamespaceCollisionFree ==
  ( /\ catalog_name # Unset
    /\ peer.catalog_name # Unset
    /\ LoginLike(user_name)
    /\ LoginLike(peer.user_name)
    /\ user_name # peer.user_name )
  => catalog_name # peer.catalog_name


EnsureOps == {"CREATE_CATALOG", "CREATE_SCHEMA", "CREATE_VOLUME"}

\* C3: a create-if-not-exists of the catalog, the schema or the volume that
\* finds the object already there (made by the same statement before) leaves
\* the catalog state as it is and raises no error, and after any successful
\* one the object exists exactly once.
C3_EnsureIdempotent ==
  [][ /\ (issued'.op \in EnsureOps /\ Exists(objs, issued'.obj))
         => (objs' = objs /\ err' = "none")
      /\ (issued'.op \in EnsureOps /\ err' = "none")
         => Count(objs', issued'.obj) = 1 ]_vars

\* CREATE SCHEMA IF NOT EXISTS sales has been issued again in a namespace
\* that an earlier run of lab 1 had built.
C3_Witness ==
  /\ issued.op = "CREATE_SCHEMA"
  /\ err = "none"
  /\ Exists(objs, "volume")
  /\ Count(objs, "schema") = 1

\* Positions of the current run's log that hold a statement op on obj.
At(op, obj) == {i \in DOMAIN log : log[i].op = op /\ log[i].obj = obj}
ShowVolumes == {i \in DOMAIN log : log[i].a1 = "SHOW VOLUMES"}
Precedes(A, B) == \A j \in B : \E i \in A : i < j

SchemaBeforeItsUses ==
  /\ Precedes(At("CREATE_SCHEMA", "schema"), At("USE_SCHEMA", "schema"))
  /\ Precedes(At("CREATE_SCHEMA", "schema"), At("CREATE_VOLUME", "volume"))
  /\ Precedes(At("CREATE_SCHEMA", "schema"), ShowVolumes)
  /\ Precedes(At("CREATE_VOLUME", "volume"), ShowVolumes)

Accepted(i) == i < Len(log) \/ status # "aborted"

\* C5: once REVOKE P ON O FROM G is accepted, SHOW GRANTS ON O has no entry
\* P for G; in lab 4, from the REVOKE SELECT on sales_fact (line 123) to the
\* end of the run, sales_fact shows no SELECT for `account users`.
C5_RevokedNotListed ==
  /\ (issued.op = "REVOKE" /\ err = "none")
       => <<issued.a1, Principal(issued.a2)>>
            \notin ShowGrants(grants, issued.obj)
  /\ (lab = 4 /\ \E i \in DOMAIN log : log[i].line = 123 /\ Accepted(i))
       => <<"SELECT", AccountUsers>> \notin ShowGrants(grants, "sales_fact")

\* Lab 4 has granted SELECT on sales_fact, shown it and revoked it.
C5_Witness ==
  /\ lab = 4
  /\ status = "done"
  /\ \E i, j \in DOMAIN log : i < j /\ log[i].line = 85 /\ log[j].line = 123

\* The rows and columns CREATE OR REPLACE TABLE t AS ... reads now.
SourceCount(t) ==
  IF t = "sales_fact" THEN Cardinality(Joined(tables)) ELSE Len(files[t])
SourceCols(t) == IF t = "sales_fact" THEN FactCols ELSE ColsOf(t)
SourceNow(t) == IF t = "sales_fact" THEN FactSource(tables) ELSE files[t]

\* C6: an accepted CREATE OR REPLACE TABLE leaves the table with the rows and
\* the columns of its query and nothing of what it held before; run again on
\* an unchanged source it leaves the row count and the columns as they were.
C6_ReplaceIdempotent ==
  [][ (issued'.op \in {"CREATE_TABLE", "CREATE_FACT"} /\ err' = "none") =>
        /\ Len(tables'[issued'.obj].rows) = SourceCount(issued'.obj)
        /\ tables'[issued'.obj].cols = SourceCols(issued'.obj)
        /\ issued'.op = "CREATE_TABLE"
             => tables'[issued'.obj].rows = files[issued'.obj]
        /\ ( /\ issued'.obj \in DOMAIN tables
             /\ tables[issued'.obj].src = SourceNow(issued'.obj) )
             => /\ Len(tables'[issued'.obj].rows)
                     = Len(tables[issued'.obj].rows)
                /\ tables'[issued'.obj].cols = tables[issued'.obj].cols ]_vars

\* customers, which held the rows sales_fact was built from, has been replaced
\* by the rows of files that changed since.
C6_Witness ==
  /\ issued.op = "CREATE_TABLE"
  /\ issued.obj = "customers"
  /\ err = "none"
  /\ dropped = <<>>
  /\ "sales_fact" \in DOMAIN tables
  /\ tables["sales_fact"].src[2] # tables["customers"].rows
  /\ Len(tables["customers"].rows) = 2

\* C7: the sales_key values of sales_fact are 1..N, and a rebuild from the
\* same tables gives every joined row the sales_key it had.
C7_SurrogateKeyDeterministic ==
  [][ (issued'.op = "CREATE_FACT" /\ err' = "none") =>
        /\ \A n \in DOMAIN tables'["sales_fact"].rows :
             tables'["sales_fact"].rows[n].sales_key = n
        /\ ( /\ "sales_fact" \in DOMAIN tables
             /\ tables["sales_fact"].src = FactSource(tables) )
             => tables'["sales_fact"].rows = tables["sales_fact"].rows ]_vars


Range(sq) == {sq[i] : i \in DOMAIN sq}
HasPolicy(name) == \E i \in DOMAIN policies : policies[i] = name

\* A SELECT * FROM t has just been answered.
Read(t) == issued.op = "SELECT" /\ issued.obj = t /\ err = "none"

NationFilterInForce ==
  /\ HasPolicy("nation_filter")
  /\ <<"n_name", "uc_geo", "">> \in tables["suppliers"].tags

\* C8: what a principal reads from suppliers is never more than the rows
\* stored; under policy nation_filter it is every row for a member of 'geo'
\* and the rows of UNITED STATES and CANADA for anyone else.
C8_RowFilterNeverExpands ==
  Read("suppliers") =>
    /\ Range(result.rows) \subseteq Range(tables["suppliers"].rows)
    /\ Len(result.rows) <= Len(tables["suppliers"].rows)
    /\ NationFilterInForce =>
         Range(result.rows) =
           {r \in Range(tables["suppliers"].rows) :
              "geo" \in result.groups
                \/ r.n_name \in {"UNITED STATES", "CANADA"}}

\* Someone outside 'geo' has read suppliers under the policy and was shown
\* some of its rows, not all.
C8_Witness ==
  /\ Read("suppliers")
  /\ NationFilterInForce
  /\ "geo" \notin result.groups
  /\ result.rows # <<>>
  /\ Len(result.rows) < Len(tables["suppliers"].rows)

MaskInForce ==
  /\ HasPolicy("mask_address")
  /\ <<"c_address", "uc_pii", "address">> \in tables["customers"].tags

\* Every row of customers is shown, with its key as stored, under the
\* columns the table declares.
SameShape ==
  /\ result.cols = tables["customers"].cols
  /\ tables["customers"].cols = CustomerCols
  /\ Len(result.rows) = Len(tables["customers"].rows)
  /\ \A i \in DOMAIN result.rows :
       /\ DOMAIN result.rows[i] = DOMAIN tables["customers"].rows[i]
       /\ result.rows[i].c_custkey = tables["customers"].rows[i].c_custkey

\* C9 as amended: under policy mask_address a principal outside 'hr_admin'
\* is shown the constant "XXX Masked Address" for every address (so a value
\* other than the stored one unless that very text is stored), a member of
\* 'hr_admin' the stored address; column names and types stay as declared.
C9_MaskShowsConstant ==
  (Read("customers") /\ MaskInForce) =>
    /\ SameShape
    /\ \A i \in DOMAIN result.rows :
         result.rows[i].c_address =
           IF "hr_admin" \in result.groups
           THEN tables["customers"].rows[i].c_address
           ELSE MaskLiteral

\* Someone outside 'hr_admin' has read a stored address as the mask text.
C9_Witness ==
  /\ Read("customers")
  /\ MaskInForce
  /\ "hr_admin" \notin result.groups
  /\ \E i \in DOMAIN result.rows :
       /\ tables["customers"].rows[i].c_address = "12 Main St"
       /\ result.rows[i].c_address = MaskLiteral

\* C9 as claimed: every address shown to a principal outside 'hr_admin'
\* differs from the stored one.
C9_MaskAltersEveryValue ==
  (Read("customers") /\ MaskInForce) =>
    /\ SameShape
    /\ \A i \in DOMAIN result.rows :
         IF "hr_admin" \in result.groups
         THEN result.rows[i].c_address = tables["customers"].rows[i].c_address
         ELSE result.rows[i].c_address # tables["customers"].rows[i].c_address

\* C10: CREATE POLICY of a name the schema already has replaces that policy
\* and raises no error; one policy of the name is left.
C10_PolicyCreateOrReplace ==
  [][ (issued'.op = "CREATE_POLICY" /\ HasPolicy(issued'.obj)) =>
        /\ err' = "none"
        /\ Cardinality({i \in DOMAIN policies' :
                          policies'[i] = issued'.obj}) = 1 ]_vars

\* The columns the two policies cover in customers and suppliers.
Covered ==
  [filter |-> [t \in {"customers", "suppliers"} |-> FilterColumns(tables[t])],
   mask   |-> [t \in {"customers", "suppliers"} |-> MaskColumns(tables[t])]]

\* A run of lab 5, in the notebook's order or with the tags applied first,
\* has reached its end.
Lab5Done == lab \in {5, 6} /\ status = "done"

\* C11: lab 5 issues CREATE FUNCTION filter_nation before CREATE POLICY
\* nation_filter and CREATE FUNCTION mask_address before CREATE POLICY
\* mask_address; and once the policies and the tags are both in place the
\* policies cover the same columns (n_name of suppliers for the row filter,
\* c_address of customers for the mask) whether the tags were set after the
\* policies, as in the notebook, or before them.
C11_FunctionsFirstTagsAnyOrder ==
  /\ lab = 5 =>
       /\ Precedes(At("CREATE_FUNCTION", "filter_nation"),
                   At("CREATE_POLICY", "nation_filter"))
       /\ Precedes(At("CREATE_FUNCTION", "mask_address"),
                   At("CREATE_POLICY", "mask_address"))
  /\ Lab5Done =>
       Covered =
         [filter |-> [t \in {"customers", "suppliers"} |->
                        IF t = "suppliers" THEN {"n_name"} ELSE {}],
          mask   |-> [t \in {"customers", "suppliers"} |->
                        IF t = "customers" THEN {"c_address"} ELSE {}]]

\* The tags were set first and the policies defined after them, and the
\* policies cover the tagged columns.
C11_Witness ==
  /\ Lab5Done
  /\ lab = 6
  /\ \E i, j \in DOMAIN log :
       i < j /\ log[i].op = "SET_TAGS" /\ log[j].op = "CREATE_POLICY"
  /\ Covered.filter["suppliers"] = {"n_name"}
  /\ Covered.mask["customers"] = {"c_address"}

\* Every object of the namespace that is there before a step is there, as it
\* was, after it.
Kept ==
  /\ \A i \in DOMAIN objs : i \in DOMAIN objs' /\ objs'[i] = objs[i]
  /\ tables' = tables
  /\ dropped' = dropped
  /\ grants' = grants
  /\ funcs' = funcs
  /\ policies' = policies

\* C12: a statement the platform rejects ends the run where it stands: the
\* run is aborted at that statement, whatever the statements before it did
\* is left as it is, and from then on no statement of that run is issued
\* and nothing is undone (until a notebook is started again).  If GRANT
\* SELECT on the materialized sales_fact (lab 4, line 85) is rejected,
\* sales_fact still exists, as it was.
C12_FailureAbortsNoRollback ==
  [][ /\ (Running /\ err' # "none") =>
           /\ status' = "aborted"
           /\ pc' = pc
           /\ platformVars' = platformVars
      /\ status = "aborted" =>
           /\ Kept
           /\ log' = log \/ (log' = <<>> /\ pc' = 1 /\ status' = "running")
      /\ ( /\ Running /\ lab = 4 /\ Cur.line = 85
           /\ "sales_fact" \in DOMAIN tables
           /\ err' # "none" ) =>
           /\ "sales_fact" \in DOMAIN tables'
           /\ tables'["sales_fact"] = tables["sales_fact"] ]_vars

\* Lab 4 was stopped by the rejection of its GRANT on sales_fact; the table
\* and the three grants made before are in place.
C12_Witness ==
  /\ lab = 4
  /\ status = "aborted"
  /\ err = "PlatformError"
  /\ issued.line = 85
  /\ "sales_fact" \in DOMAIN tables
  /\ <<"USE_SCHEMA", "schema", AccountUsers>> \in grants
  /\ <<"SELECT", "schema", AccountUsers>> \in grants
  /\ <<"SELECT", "sales_fact", AccountUsers>> \notin grants

\* The triple a GRANT or REVOKE of the log names.
Triple(st) == <<st.a1, st.obj, Principal(st.a2)>>

\* C13: when lab 4 has run to its end, none of the triples it granted is
\* left: every GRANT of the run is followed by a REVOKE of the same
\* privilege on the same object from the same principal.
C13_Lab4UndoesItsGrants ==
  (lab = 4 /\ status = "done") =>
    \A i \in DOMAIN log :
      log[i].op = "GRANT" =>
        /\ Triple(log[i]) \notin grants
        /\ \E j \in DOMAIN log :
             /\ i < j
             /\ log[j].op = "REVOKE"
             /\ Triple(log[j]) = Triple(log[i])

\* The current run has issued the statement of a source line.
Issued(line) == \E i \in DOMAIN log : log[i].line = line

\* C14: in lab 3, UNDROP TABLE customers (line 192) brings back the table
\* DROP TABLE customers (line 180) removed; once the run has issued its
\* last undrop, UNDROP TABLE WITH ID (line 222), customers exists; and lab
\* 5, run after lab 3 got that far, finds customers at its SELECT (line 54)
\* and at its column tagging (line 118).
C14_DropUndropPreservesCustomers ==
  /\ (lab = 3 /\ issued.line = 192 /\ err = "none") =>
       /\ "customers" \in DOMAIN tables
       /\ tables["customers"].rows = files.customers
       /\ tables["customers"].cols = CustomerCols
  /\ (lab = 3 /\ Issued(222)) => "customers" \in DOMAIN tables
  /\ (lab = 5 /\ issued.line \in {54, 118} /\ Exists(objs, "schema")
        /\ "suppliers" \in DOMAIN tables) => err = "none"

=============================================================================
